---- MODULE Spec2Model ----
(***************************************************************************)
(* derive_builder: the #[derive(Builder)] expansion (src/src/lib.rs) and   *)
(* the BlockContents wrapper (src/derive_builder_core/src/block.rs).       *)
(*                                                                         *)
(* Token streams (quote::Tokens, proc_macro2::TokenStream) are sequences   *)
(* of strings, one string per token.  A parsed declaration is a record     *)
(*   [ident, generics, body]                                               *)
(* shaped after syn::MacroInput: generics = [lifetimes, ty_params,         *)
(* where_clause]; body = [kind, fields] with kind "Struct" (braced),       *)
(* "Tuple", "Unit" or "Enum".                                              *)
(***************************************************************************)
EXTENDS Integers, Sequences, FiniteSets, TLC

VARIABLES
    input,      \* derive: the macro input, [parse, ast]
    pc,         \* derive: "ready", "expanded" or "panicked"
    panic,      \* derive: the panic message, "" when none
    output,     \* derive: the TokenStream returned to the compiler
    heap,       \* run time: the instances of the annotated struct
    recv,       \* run time: the instance the last setter call was made on
    ret,        \* run time: the reference returned by the last setter call
    last,       \* run time: per instance and setter, the argument of its last call
    lit,        \* block: the value a BlockContents is constructed from
    bc,         \* block: the result of the construction
    outs,       \* block: the token streams produced by quote!(#bc)
    empt        \* block: the results of the is_empty() queries

vars == <<input, pc, panic, output, heap, recv, ret, last, lit, bc, outs, empt>>

deriveVars == <<input, pc, panic, output, heap, recv, ret, last>>
blockVars  == <<lit, bc, outs, empt>>

(***************************************************************************)
(* Bounds.                                                                 *)
(***************************************************************************)
MaxFields    == 2
MaxTyParams  == 2
MaxLifetimes == 1
MaxWhere     == 1
NumInst      == 2
MaxLen       == 5
MaxQueries   == 2

(***************************************************************************)
(* Sequence helpers.                                                       *)
(***************************************************************************)
SeqsUpTo(S, n) == UNION {[1..k -> S] : k \in 0..n}

RECURSIVE Flatten(_)
Flatten(ss) == IF ss = <<>> THEN <<>> ELSE Head(ss) \o Flatten(Tail(ss))

\* Tokens::append_separated: the items with sep between neighbours.
RECURSIVE append_separated(_, _)
append_separated(ss, sep) ==
    IF ss = <<>> THEN <<>>
    ELSE IF Len(ss) = 1 THEN Head(ss)
    ELSE Head(ss) \o <<sep>> \o append_separated(Tail(ss), sep)

\* The positions of token t in s, in increasing order.
Positions(s, t) == SelectSeq([i \in 1..Len(s) |-> i], LAMBDA i : s[i] = t)

(***************************************************************************)
(* The declarations the macro is applied to.                               *)
(***************************************************************************)
Fields     == {[ident |-> "ipsum", ty |-> "String"],
               [ident |-> "dolor", ty |-> "i32"],
               [ident |-> "dolor", ty |-> "T"]}

NoDefault  == "-"
TyParams   == [ident : {"T", "VALUE"},
               bounds : {<<>>, <<"Clone", "Default">>},
               default : {NoDefault, "i32"}]
LifetimeDefs == {[lifetime |-> "'a", bounds |-> <<>>],
                 [lifetime |-> "'b", bounds |-> <<"'a">>]}
WherePredicates == {<<"T", ":", "Default">>}

DistinctIdents(ps) == \A i, j \in 1..Len(ps) : ps[i].ident = ps[j].ident => i = j

GenericsSet ==
    [lifetimes    : SeqsUpTo(LifetimeDefs, MaxLifetimes),
     ty_params    : {ps \in SeqsUpTo(TyParams, MaxTyParams) : DistinctIdents(ps)},
     where_clause : SeqsUpTo(WherePredicates, MaxWhere)]

NoGenerics == [lifetimes |-> <<>>, ty_params |-> <<>>, where_clause |-> <<>>]

Bodies ==
    {[kind |-> "Struct", fields |-> fs] : fs \in SeqsUpTo(Fields, MaxFields)}
      \cup {[kind |-> k, fields |-> <<>>] : k \in {"Tuple", "Unit", "Enum"}}

Asts == [ident : {"Lorem"}, generics : GenericsSet, body : Bodies]

\* The text handed to syn::parse_macro_input either parses to a declaration
\* or does not; err is the Debug text of the parse error.
NoAst == [ident |-> "", generics |-> NoGenerics,
          body |-> [kind |-> "Unit", fields |-> <<>>]]

ParseErrors == {"Error(\"lex error\")", "Error(\"expected struct or enum\")"}

Inputs == {[parse |-> "Ok", err |-> "", ast |-> a] : a \in Asts}
            \cup {[parse |-> "Err", err |-> e, ast |-> NoAst] : e \in ParseErrors}

(***************************************************************************)
(* syn's printing of generics (ToTokens).                                  *)
(***************************************************************************)
BoundsToks(bounds) ==
    IF bounds = <<>> THEN <<>>
    ELSE <<":">> \o append_separated([i \in 1..Len(bounds) |-> <<bounds[i]>>], "+")

LifetimeDefToks(l) == <<l.lifetime>> \o BoundsToks(l.bounds)

TyParamToks(p) ==
    <<p.ident>> \o BoundsToks(p.bounds)
       \o (IF p.default = NoDefault THEN <<>> ELSE <<"=", p.default>>)

GenericsToks(g) ==
    LET has_lifetimes == g.lifetimes # <<>>
        has_ty_params == g.ty_params # <<>>
    IN IF has_lifetimes \/ has_ty_params
       THEN <<"<">>
              \o append_separated(
                   [i \in 1..Len(g.lifetimes) |-> LifetimeDefToks(g.lifetimes[i])], ",")
              \o (IF has_lifetimes /\ has_ty_params THEN <<",">> ELSE <<>>)
              \o append_separated(
                   [i \in 1..Len(g.ty_params) |-> TyParamToks(g.ty_params[i])], ",")
              \o <<">">>
       ELSE <<>>

WhereClauseToks(w) ==
    IF w = <<>> THEN <<>> ELSE <<"where">> \o append_separated(w, ",")

\* Generics::split_for_impl: the generics for the impl header (bounds kept,
\* defaults and where-clause removed), the generics for the type position
\* (bounds removed as well), and the where-clause.
impl_generics_bounds_dropped(g) ==
    [lifetimes    |-> [i \in 1..Len(g.lifetimes) |->
                         [lifetime |-> g.lifetimes[i].lifetime, bounds |-> <<>>]],
     ty_params    |-> [i \in 1..Len(g.ty_params) |->
                         [ident   |-> g.ty_params[i].ident,
                          bounds  |-> <<>>,
                          default |-> NoDefault]],
     where_clause |-> <<>>]

impl_generics(g) ==
    [lifetimes    |-> g.lifetimes,
     ty_params    |-> [i \in 1..Len(g.ty_params) |->
                         [ident   |-> g.ty_params[i].ident,
                          bounds  |-> g.ty_params[i].bounds,
                          default |-> NoDefault]],
     where_clause |-> <<>>]

ty_generics(g) ==
    [lifetimes    |-> [i \in 1..Len(g.lifetimes) |->
                         [lifetime |-> g.lifetimes[i].lifetime, bounds |-> <<>>]],
     ty_params    |-> [i \in 1..Len(g.ty_params) |->
                         [ident   |-> g.ty_params[i].ident,
                          bounds  |-> <<>>,
                          default |-> NoDefault]],
     where_clause |-> <<>>]

where_clause(g) == g.where_clause

(***************************************************************************)
(* builder_for_struct.                                                     *)
(***************************************************************************)
ShapeMsg == "#[derive(new)] can only be used with braced structs"
ParseMsg == "Couldn't parse item"

\* Result::expect on an Err: the message, ": ", and the error's Debug text.
expect_panic(msg, err) == msg \o ": " \o err

\* The quote! of one setter, lib.rs 129-132.
setter_with_param(f, P) ==
    <<"pub", "fn", f.ident, "<", P, ":", "Into", "<", f.ty, ">", ">",
      "(", "&", "mut", "self", ",", "value", ":", P, ")",
      "->", "&", "mut", "Self",
      "{", "self", ".", f.ident, "=", "value", ".", "into", "(", ")", ";",
           "self", "}">>

setter_T(f) == setter_with_param(f, "T")

setter(f) == setter_with_param(f, "VALUE")

funcs_skip_first(fields) ==
    [i \in 1..(IF Len(fields) = 0 THEN 0 ELSE Len(fields) - 1) |-> setter(fields[i + 1])]

\* fields.iter().map(..), lib.rs 126-133.
funcs(fields) == [i \in 1..Len(fields) |-> setter(fields[i])]

\* Does the match of lib.rs 119-122 reach its panicking arm?
shape_panics_unit_accepted(body) == body.kind \notin {"Struct", "Unit"}

shape_panics(body) == body.kind # "Struct"

builder_for_struct(ast) ==
    IF shape_panics(ast.body)
    THEN [panic |-> ShapeMsg, tokens |-> <<>>]
    ELSE [panic  |-> "",
          tokens |-> <<"impl">>
                       \o GenericsToks(impl_generics(ast.generics))
                       \o <<ast.ident>>
                       \o GenericsToks(ty_generics(ast.generics))
                       \o WhereClauseToks(where_clause(ast.generics))
                       \o <<"{">> \o Flatten(funcs(ast.body.fields)) \o <<"}">>]

\* What the macro hands back: nothing when it panicked, else the input
\* followed by the generated impl block.
NoOutput == [emitted |-> FALSE, decl |-> <<>>, impl |-> <<>>]

(***************************************************************************)
(* The generated code at run time.  A value is [ty, v]; an instance maps   *)
(* each field name to a value.  The struct is instantiated with T = i32.   *)
(***************************************************************************)
Resolve(ty) == IF ty = "T" THEN "i32" ELSE ty

Args == {[ty |-> "&str", v |-> "sit"], [ty |-> "String", v |-> "amet"],
         [ty |-> "i16", v |-> "42"],   [ty |-> "i32", v |-> "7"]}

\* The impls of Into the calls rely on: &str -> String, i16 -> i32, T -> T.
Convertible(from, to) ==
    \/ from = to
    \/ from = "&str" /\ to = "String"
    \/ from = "i16" /\ to = "i32"

Into(to, a) == [ty |-> to, v |-> a.v]

DefaultValue(ty) == IF ty = "String" THEN [ty |-> "String", v |-> ""]
                    ELSE [ty |-> "i32", v |-> "0"]

FieldIdents(ast) == {ast.body.fields[i].ident : i \in 1..Len(ast.body.fields)}

FieldTy(ast, name) ==
    LET i == CHOOSE i \in 1..Len(ast.body.fields) : ast.body.fields[i].ident = name
    IN Resolve(ast.body.fields[i].ty)

\* The declarations for which the struct and the generated impl compile, so
\* that instances and setter calls exist: field names are distinct, every
\* declared parameter is used and every used one declared, and no parameter
\* is called VALUE.
Compilable(ast) ==
    LET fs == ast.body.fields
        g  == ast.generics
        usesT == \E i \in 1..Len(fs) : fs[i].ty = "T"
        declT == \E i \in 1..Len(g.ty_params) : g.ty_params[i].ident = "T"
    IN /\ ast.body.kind = "Struct"
       /\ \A i, j \in 1..Len(fs) : fs[i].ident = fs[j].ident => i = j
       /\ g.lifetimes = <<>>
       /\ \A i \in 1..Len(g.ty_params) : g.ty_params[i].ident = "T"
       /\ usesT <=> declT
       /\ g.where_clause # <<>> => declT

DefaultInstance(ast) == [n \in FieldIdents(ast) |-> DefaultValue(FieldTy(ast, n))]

\* The generated methods as the compiler reads them off the impl block.
MethodAt(toks, i) ==
    [name |-> toks[i + 1], param |-> toks[i + 3], into_ty |-> toks[i + 7],
     arg_ty |-> toks[i + 17], target |-> toks[i + 26], result |-> toks[i + 34]]

Methods(toks) ==
    LET at == Positions(toks, "fn")
    IN [k \in 1..Len(at) |-> MethodAt(toks, at[k])]

\* The body of a generated setter run on instance r with argument a:
\* self.<target> = value.into(); self
exec_resetting_others(ast, h, r, m, a) ==
    [h EXCEPT ![r] = [DefaultInstance(ast) EXCEPT
                        ![m.target] = Into(FieldTy(ast, m.target), a)]]

exec(ast, h, r, m, a) ==
    [h EXCEPT ![r][m.target] = Into(FieldTy(ast, m.target), a)]

NoCall == [ty |-> "none", v |-> ""]

(***************************************************************************)
(* Actions of the builder generator.                                       *)
(***************************************************************************)
\* derive, lib.rs 108-116.  The expect of line 115 re-lexes text that was
\* printed from tokens, which succeeds for every input drawn here.
Derive ==
    /\ pc = "ready"
    /\ IF input.parse = "Err"
       THEN /\ pc' = "panicked"
            /\ panic' = expect_panic(ParseMsg, input.err)
            /\ output' = NoOutput
       ELSE LET result == builder_for_struct(input.ast)
            IN IF result.panic # ""
               THEN /\ pc' = "panicked"
                    /\ panic' = result.panic
                    /\ output' = NoOutput
               ELSE /\ pc' = "expanded"
                    /\ panic' = ""
                    /\ output' = [emitted |-> TRUE,
                                  decl    |-> <<input.ast>>,
                                  impl    |-> result.tokens]
    /\ UNCHANGED <<input, heap, recv, ret, last>>
    /\ UNCHANGED blockVars

\* Lorem::default(): a new instance of the annotated struct.
New ==
    /\ pc = "expanded"
    /\ Compilable(input.ast)
    /\ Len(heap) < NumInst
    /\ heap' = Append(heap, DefaultInstance(input.ast))
    /\ last' = Append(last, [n \in FieldIdents(input.ast) |-> NoCall])
    /\ UNCHANGED <<input, pc, panic, output, recv, ret>>
    /\ UNCHANGED blockVars

\* instance.<name>(a): a call of a generated setter, lib.rs 129-132.
CallSetter ==
    /\ pc = "expanded"
    /\ \E r \in 1..Len(heap), k \in 1..Len(Methods(output.impl)), a \in Args :
         LET m == Methods(output.impl)[k]
         IN /\ Convertible(a.ty, Resolve(m.into_ty))
            /\ heap' = exec(input.ast, heap, r, m, a)
            /\ recv' = r
            /\ ret' = (IF m.result = "self" THEN r ELSE 0)
            /\ last' = [last EXCEPT ![r][m.name] = a]
    /\ UNCHANGED <<input, pc, panic, output>>
    /\ UNCHANGED blockVars

(***************************************************************************)
(* BlockContents.  A text fragment is a sequence over Alphabet, where      *)
(* "let x = 2" stands for a let binding without its semicolon and "42"     *)
(* for an expression that is not block-like.  A statement is [kind, expr]  *)
(* with kind "Local", "Expr" (no semicolon) or "Semi"; an expression is    *)
(* [kind, stmts] with kind "Lit", "Block", "Verbatim" (the empty           *)
(* expression of a lone semicolon) or "None".                              *)
(***************************************************************************)
Alphabet == {"{", "}", ";", "let x = 2", "42"}

Texts == SeqsUpTo(Alphabet, MaxLen)

NoneE     == [kind |-> "None", stmts |-> <<>>]
LitE      == [kind |-> "Lit", stmts |-> <<>>]
VerbatimE == [kind |-> "Verbatim", stmts |-> <<>>]
BlockE(ss) == [kind |-> "Block", stmts |-> ss]

LocalS    == [kind |-> "Local", expr |-> NoneE]
ExprS(e)  == [kind |-> "Expr", expr |-> e]
SemiS(e)  == [kind |-> "Semi", expr |-> e]

Exprs == {LitE, BlockE(<<>>), BlockE(<<ExprS(LitE)>>), BlockE(<<LocalS, ExprS(LitE)>>)}

Lits == {[kind |-> "text", text |-> t, expr |-> NoneE] : t \in Texts}
          \cup {[kind |-> "expr", text |-> <<>>, expr |-> e] : e \in Exprs}

\* The lexer under LitStr::parse: the text as token trees, each a single
\* token or a brace group; it fails when the braces do not match up.
TokT(t)       == [kind |-> "tok", t |-> t, inner |-> <<>>]
GroupT(inner) == [kind |-> "group", t |-> "{", inner |-> inner]

RECURSIVE LexSeq(_, _)
LexSeq(toks, i) ==
    IF i > Len(toks) \/ toks[i] = "}"
    THEN [ok |-> TRUE, trees |-> <<>>, next |-> i]
    ELSE IF toks[i] = "{"
    THEN LET inner == LexSeq(toks, i + 1)
         IN IF ~inner.ok \/ inner.next > Len(toks)
            THEN [ok |-> FALSE, trees |-> <<>>, next |-> i]
            ELSE LET rest == LexSeq(toks, inner.next + 1)
                 IN [ok    |-> rest.ok,
                     trees |-> <<GroupT(inner.trees)>> \o rest.trees,
                     next  |-> rest.next]
    ELSE LET rest == LexSeq(toks, i + 1)
         IN [ok    |-> rest.ok,
             trees |-> <<TokT(toks[i])>> \o rest.trees,
             next  |-> rest.next]

Lex(toks) ==
    LET r == LexSeq(toks, 1)
    IN IF r.ok /\ r.next = Len(toks) + 1
       THEN [ok |-> TRUE, trees |-> r.trees]
       ELSE [ok |-> FALSE, trees |-> <<>>]

\* syn's Block::parse_within on the trees inside a brace group, from
\* position i on.
IsTok(trees, i, t) == i <= Len(trees) /\ trees[i].kind = "tok" /\ trees[i].t = t

POk(ss) == [ok |-> TRUE, err |-> "", stmts |-> ss]
PErr(msg) == [ok |-> FALSE, err |-> msg, stmts |-> <<>>]
PCons(s, rest) == IF rest.ok THEN POk(<<s>> \o rest.stmts) ELSE rest

\* syn's message for a let binding without its semicolon; syn prints the
\* semicolon between backquotes, a character no TLA+ string can hold.
ExpectedSemi == "expected ;"
Unexpected   == "unexpected token"

RECURSIVE parse_within(_, _)
parse_within(trees, i) ==
    IF i > Len(trees) THEN POk(<<>>)
    ELSE IF IsTok(trees, i, ";")
    THEN PCons(SemiS(VerbatimE), parse_within(trees, i + 1))
    ELSE IF IsTok(trees, i, "let x = 2")
    THEN IF IsTok(trees, i + 1, ";")
         THEN PCons(LocalS, parse_within(trees, i + 2))
         ELSE PErr(ExpectedSemi)
    ELSE IF IsTok(trees, i, "42")
    THEN IF IsTok(trees, i + 1, ";")
         THEN PCons(SemiS(LitE), parse_within(trees, i + 2))
         ELSE IF i = Len(trees) THEN POk(<<ExprS(LitE)>>)
         ELSE PErr(Unexpected)
    ELSE LET inner == parse_within(trees[i].inner, 1)
         IN IF ~inner.ok THEN inner
            ELSE IF IsTok(trees, i + 1, ";")
            THEN PCons(SemiS(BlockE(inner.stmts)), parse_within(trees, i + 2))
            ELSE PCons(ExprS(BlockE(inner.stmts)), parse_within(trees, i + 1))

NoBlock == [stmts |-> <<>>]
Unbuilt == [state |-> "none", err |-> "", block |-> NoBlock]
Err(msg) == [state |-> "err", err |-> msg, block |-> NoBlock]
Ok(b)    == [state |-> "ok", err |-> "", block |-> b]

\* impl TryFrom<&LitStr> for BlockContents, block.rs 30-35.
try_from_trailing_ignored(s) ==
    LET block_str == <<"{">> \o s \o <<"}">>
        lexed     == LexSeq(block_str, 1)
    IN IF ~lexed.ok \/ lexed.trees = <<>> THEN Err("lex error")
       ELSE LET inner == parse_within(lexed.trees[1].inner, 1)
            IN IF ~inner.ok THEN Err(inner.err)
               ELSE Ok([stmts |-> inner.stmts])

try_from(s) ==
    LET block_str == <<"{">> \o s \o <<"}">>
        lexed     == Lex(block_str)
    IN IF ~lexed.ok THEN Err("lex error")
       ELSE LET inner == parse_within(lexed.trees[1].inner, 1)
            IN IF ~inner.ok THEN Err(inner.err)
               ELSE IF Len(lexed.trees) > 1 THEN Err(Unexpected)
               ELSE Ok([stmts |-> inner.stmts])

\* impl From<syn::Expr> for BlockContents, block.rs 39-44.
from_as_semi(v) == Ok([stmts |-> <<SemiS(v)>>])

from(v) == Ok([stmts |-> <<ExprS(v)>>])

\* BlockContents::is_empty, block.rs 16-18.
is_empty_single(b) == Len(b.stmts) <= 1

is_empty(b) == Len(b.stmts) = 0

\* syn's printing of statements and expressions.
RECURSIVE StmtsToks(_)
ExprToks(e) ==
    IF e.kind = "Lit" THEN <<"42">>
    ELSE IF e.kind = "Block" THEN <<"{">> \o StmtsToks(e.stmts) \o <<"}">>
    ELSE <<>>

StmtToks(s) ==
    IF s.kind = "Local" THEN <<"let x = 2", ";">>
    ELSE IF s.kind = "Semi" THEN ExprToks(s.expr) \o <<";">>
    ELSE ExprToks(s.expr)

StmtsToks(ss) == IF ss = <<>> THEN <<>> ELSE StmtToks(Head(ss)) \o StmtsToks(Tail(ss))

\* impl ToTokens for BlockContents, block.rs 22-24: the block is appended
\* to the stream.
to_tokens_unbraced(b, tokens) == tokens \o StmtsToks(b.stmts)

to_tokens(b, tokens) == tokens \o <<"{">> \o StmtsToks(b.stmts) \o <<"}">>

(***************************************************************************)
(* Actions of the block embedder.                                          *)
(***************************************************************************)
TryFrom ==
    /\ bc.state = "none"
    /\ lit.kind = "text"
    /\ bc' = try_from(lit.text)
    /\ UNCHANGED <<lit, outs, empt>>
    /\ UNCHANGED deriveVars

From ==
    /\ bc.state = "none"
    /\ lit.kind = "expr"
    /\ bc' = from(lit.expr)
    /\ UNCHANGED <<lit, outs, empt>>
    /\ UNCHANGED deriveVars

IsEmpty ==
    /\ bc.state = "ok"
    /\ Len(empt) < MaxQueries
    /\ empt' = Append(empt, is_empty(bc.block))
    /\ UNCHANGED <<lit, bc, outs>>
    /\ UNCHANGED deriveVars

\* quote!(#bc): to_tokens into a new stream.
ToTokens ==
    /\ bc.state = "ok"
    /\ Len(outs) < MaxQueries
    /\ outs' = Append(outs, to_tokens(bc.block, <<>>))
    /\ UNCHANGED <<lit, bc, empt>>
    /\ UNCHANGED deriveVars

(***************************************************************************)
(* Specifications.                                                         *)
(***************************************************************************)
IdleBlock ==
    /\ lit = [kind |-> "text", text |-> <<>>, expr |-> NoneE]
    /\ bc = Unbuilt
    /\ outs = <<>>
    /\ empt = <<>>

IdleDerive ==
    /\ input = [parse |-> "Err", err |-> "", ast |-> NoAst]
    /\ pc = "idle"
    /\ panic = ""
    /\ output = NoOutput
    /\ heap = <<>>
    /\ recv = 0
    /\ ret = 0
    /\ last = <<>>

\* One expansion of #[derive(Builder)], then the generated setters at work.
Init ==
    /\ input \in Inputs
    /\ pc = "ready"
    /\ panic = ""
    /\ output = NoOutput
    /\ heap = <<>>
    /\ recv = 0
    /\ ret = 0
    /\ last = <<>>
    /\ IdleBlock

Next == Derive \/ New \/ CallSetter

Spec == Init /\ [][Next]_vars

\* One BlockContents: constructed, then queried and re-emitted.
InitBlock ==
    /\ lit \in Lits
    /\ bc = Unbuilt
    /\ outs = <<>>
    /\ empt = <<>>
    /\ IdleDerive

NextBlock == TryFrom \/ From \/ IsEmpty \/ ToTokens

SpecBlock == InitBlock /\ [][NextBlock]_vars

(***************************************************************************)
(* Properties of the builder generator, checked under Spec.                *)
(***************************************************************************)
Expanded == pc = "expanded"
DeclFields == input.ast.body.fields
DeclGenerics == input.ast.generics
Generated == Methods(output.impl)

\* C1: for a braced struct with N fields the impl block holds exactly N
\* methods, the i-th named as the i-th declared field.
C1_OneSetterPerFieldInOrder ==
    Expanded =>
        /\ Len(Generated) = Len(DeclFields)
        /\ \A i \in 1..Len(DeclFields) : Generated[i].name = DeclFields[i].ident

C1_Witness ==
    /\ Expanded
    /\ Len(DeclFields) = 2
    /\ DeclFields[1].ident = "dolor"
    /\ DeclFields[2].ident = "ipsum"
    /\ Generated[1].name = "dolor"

\* C2: every field of every instance holds the conversion of the argument
\* of the last call of its own setter on that instance, or its initial
\* value when that setter was never called there, and the last call
\* returned the instance it was made on.
C2_SetterSetsOwnFieldReturnsSelf ==
    Expanded =>
        /\ ret = recv
        /\ \A o \in 1..Len(heap) : \A n \in FieldIdents(input.ast) :
             heap[o][n] = IF last[o][n] = NoCall
                          THEN DefaultValue(FieldTy(input.ast, n))
                          ELSE [ty |-> FieldTy(input.ast, n), v |-> last[o][n].v]

C2_Witness ==
    /\ Expanded
    /\ Len(heap) = 2
    /\ ret = 1
    /\ FieldIdents(input.ast) = {"ipsum", "dolor"}
    /\ last[1]["ipsum"] = [ty |-> "&str", v |-> "sit"]
    /\ last[1]["dolor"] = [ty |-> "i16", v |-> "42"]
    /\ heap[1]["ipsum"] = [ty |-> "String", v |-> "sit"]
    /\ heap[1]["dolor"] = [ty |-> "i32", v |-> "42"]
    /\ last[2]["ipsum"] # NoCall
    /\ last[2]["dolor"] = NoCall

\* C3: a declaration that is not a braced struct makes the expansion panic
\* with the shape message and return nothing; a braced struct never does.
C3_OnlyBracedStructsExpand ==
    (pc # "ready" /\ input.parse = "Ok") =>
        IF input.ast.body.kind = "Struct"
        THEN pc = "expanded" /\ panic = "" /\ output.emitted
        ELSE /\ pc = "panicked"
             /\ panic = ShapeMsg
             /\ ~output.emitted
             /\ output.decl = <<>>
             /\ output.impl = <<>>

C3_Witness ==
    /\ pc = "panicked"
    /\ input.parse = "Ok"
    /\ input.ast.body.kind = "Unit"
    /\ panic = ShapeMsg
    /\ output = NoOutput

\* C4: the header of the impl block is `impl`, the declared parameters with
\* their bounds, the type name, the bare parameter names, and the
\* where-clause, in the declared order; without generics it is `impl Name`.
Header(toks) ==
    LET open == Positions(toks, "{")
    IN SubSeq(toks, 1, open[1] - 1)

Angle(items) ==
    IF items = <<>> THEN <<>> ELSE <<"<">> \o append_separated(items, ",") \o <<">">>

DeclaredWithBounds(g) ==
    [i \in 1..Len(g.lifetimes) |->
        <<g.lifetimes[i].lifetime>> \o BoundsToks(g.lifetimes[i].bounds)]
      \o [i \in 1..Len(g.ty_params) |->
            <<g.ty_params[i].ident>> \o BoundsToks(g.ty_params[i].bounds)]

BareNames(g) ==
    [i \in 1..Len(g.lifetimes) |-> <<g.lifetimes[i].lifetime>>]
      \o [i \in 1..Len(g.ty_params) |-> <<g.ty_params[i].ident>>]

C4_HeaderCarriesGenerics ==
    Expanded =>
        /\ Header(output.impl) =
              <<"impl">> \o Angle(DeclaredWithBounds(DeclGenerics))
                 \o <<input.ast.ident>> \o Angle(BareNames(DeclGenerics))
                 \o WhereClauseToks(DeclGenerics.where_clause)
        /\ DeclGenerics = NoGenerics => Header(output.impl) = <<"impl", input.ast.ident>>

C4_Witness ==
    /\ Expanded
    /\ Len(DeclGenerics.lifetimes) = 1
    /\ DeclGenerics.lifetimes[1].bounds # <<>>
    /\ Len(DeclGenerics.ty_params) = 2
    /\ DeclGenerics.ty_params[1].bounds # <<>>
    /\ DeclGenerics.ty_params[1].default = "i32"
    /\ DeclGenerics.ty_params[2].bounds = <<>>
    /\ DeclGenerics.where_clause # <<>>
    /\ Header(output.impl) =
         <<"impl", "<", "'b", ":", "'a", ",", "T", ":", "Clone", "+", "Default", ",",
           "VALUE", ">", "Lorem", "<", "'b", ",", "T", ",", "VALUE", ">",
           "where", "T", ":", "Default">>

\* C10 as stated: the type parameter a setter introduces is never the name
\* of a generic parameter of the host type.
TyParamIdents(g) == {g.ty_params[i].ident : i \in 1..Len(g.ty_params)}

C10_SetterParamNeverCollides ==
    Expanded =>
        \A k \in 1..Len(Generated) : Generated[k].param \notin TyParamIdents(DeclGenerics)

\* C10 amended: every setter introduces the parameter VALUE, which is the
\* name of no generic parameter of the host type unless the host type
\* declares a parameter VALUE itself.
C10_SetterParamIsValue ==
    Expanded =>
        \A k \in 1..Len(Generated) :
            /\ Generated[k].param = "VALUE"
            /\ "VALUE" \notin TyParamIdents(DeclGenerics)
                  => Generated[k].param \notin TyParamIdents(DeclGenerics)

C10_Witness ==
    /\ Expanded
    /\ Len(Generated) = 2
    /\ TyParamIdents(DeclGenerics) = {"T"}
    /\ Generated[1].param \notin TyParamIdents(DeclGenerics)

(***************************************************************************)
(* Properties of the block embedder, checked under SpecBlock.              *)
(***************************************************************************)
Built == bc.state # "none"
FromText == lit.kind = "text"
Wrapped == <<"{">> \o lit.text \o <<"}">>

Depth(t, k) == Cardinality({i \in 1..k : t[i] = "{"}) - Cardinality({i \in 1..k : t[i] = "}"})
Balanced(t) == /\ \A k \in 1..Len(t) : Depth(t, k) >= 0
               /\ Depth(t, Len(t)) = 0

\* C5: a fragment whose braces do not balance inside the wrapper yields an
\* error and no block; a block that is returned accounts for every token
\* of the fragment.
C5_UnbalancedTextIsAnError ==
    (FromText /\ Built) =>
        /\ ~Balanced(lit.text) => bc.state = "err" /\ bc.block = NoBlock
        /\ bc.state = "ok" => /\ Balanced(lit.text)
                              /\ Len(StmtsToks(bc.block.stmts)) = Len(lit.text)

C5_Witness ==
    /\ lit.text = <<"let x = 2", ";", "{", "42">>
    /\ bc = Err("lex error")

\* C6: every emission of a block built from a fragment is `{`, the
\* fragment's own tokens in their order, `}`; the empty fragment gives {}.
C6_EmitsTheFragmentInBraces ==
    (FromText /\ bc.state = "ok") =>
        \A i \in 1..Len(outs) :
            /\ outs[i] = Wrapped
            /\ lit.text = <<>> => outs[i] = <<"{", "}">>

C6_Witness ==
    /\ lit.text = <<"let x = 2", ";", "{", "42", "}">>
    /\ bc.state = "ok"
    /\ Len(bc.block.stmts) = 2
    /\ outs = << <<"{", "let x = 2", ";", "{", "42", "}", "}">> >>

\* C7: construction from an expression never fails and gives the block of
\* that one expression statement, emitted as the expression in braces.
C7_FromExprIsOneStatement ==
    (lit.kind = "expr" /\ Built) =>
        /\ bc.state = "ok"
        /\ bc.block.stmts = <<ExprS(lit.expr)>>
        /\ \A i \in 1..Len(outs) :
              /\ outs[i] = <<"{">> \o ExprToks(lit.expr) \o <<"}">>
              /\ lit.expr = LitE => outs[i] = <<"{", "42", "}">>

C7_Witness ==
    /\ lit.kind = "expr"
    /\ lit.expr = LitE
    /\ Len(bc.block.stmts) = 1
    /\ outs = << <<"{", "42", "}">> >>

\* C9: an is_empty query answers TRUE exactly for a block of zero
\* statements (so for the empty fragment, and neither for a fragment with a
\* statement nor for an expression) and changes nothing else.
HasStatement(t) == \E i \in 1..Len(t) : t[i] \in {"let x = 2", "42", "{"}

C9_IsEmptyIffNoStatements ==
    [][empt' # empt =>
         LET answer == empt'[Len(empt')]
         IN /\ empt' = Append(empt, answer)
            /\ answer <=> (Len(bc.block.stmts) = 0)
            /\ (FromText /\ lit.text = <<>>) => answer
            /\ (FromText /\ HasStatement(lit.text)) => ~answer
            /\ lit.kind = "expr" => ~answer
            /\ <<lit, bc, outs>>' = <<lit, bc, outs>>]_vars

C9_Witness ==
    /\ FromText
    /\ lit.text = <<>>
    /\ bc.state = "ok"
    /\ empt = <<TRUE, TRUE>>

====
